---- MODULE Spec2Model ----
(***************************************************************************)
(* agg-files: selection pipeline of src/file_processor.rs with the config  *)
(* ignore list of src/config.rs and the option record of src/cli.rs.       *)
(*                                                                         *)
(* Strings are sequences of one-character strings, paths are sequences of  *)
(* components.  The program is run twice over the same file system,        *)
(* options and patterns: first without --sort-size (streaming mode), then  *)
(* with it (size-sorted mode), so that the two modes can be compared.      *)
(***************************************************************************)
EXTENDS Integers, Sequences, FiniteSets, TLC

VARIABLES
    args,        \* CliArgs: recursive, ignore_gitignore, files_only, sort_by_size, patterns
    gitignore,   \* FileProcessor.gitignore: Option<Gitignore>
    config,      \* Config: ignore: Option<Vec<String>>
    sizes,       \* file system: byte length of every regular file
    statFail,    \* file system: files whose fs::metadata lookup fails
    unreadable,  \* file system: files whose fs::read_to_string fails
    pc,          \* position of the current run
    idx,         \* index of the next pattern of args.patterns
    out,         \* standard output of the streaming run
    file_sizes,  \* the Vec<(PathBuf, usize)> of process_with_size_sorting
    printed,     \* standard output of the size-sorted run
    visited,     \* every filter_entry decision taken so far
    streamExit   \* how the streaming run ended, once the second run started

vars == << args, gitignore, config, sizes, statFail, unreadable, pc, idx, out,
           file_sizes, printed, visited, streamExit >>

----------------------------------------------------------------------------
(* Bounds of the model *)

MaxPatterns == 2

MaxSize == 2

----------------------------------------------------------------------------
(* Generic sequence helpers *)

Range(s) == { s[i] : i \in 1..Len(s) }

StartsWith(s, pre) ==
    /\ Len(pre) <= Len(s)
    /\ SubSeq(s, 1, Len(pre)) = pre

Drop(s, n) == SubSeq(s, n + 1, Len(s))

RECURSIVE Flatten(_)
Flatten(ss) == IF ss = << >> THEN << >> ELSE Head(ss) \o Flatten(Tail(ss))

RECURSIVE CountIn(_, _)
CountIn(s, x) ==
    IF s = << >> THEN 0
    ELSE (IF Head(s) = x THEN 1 ELSE 0) + CountIn(Tail(s), x)

----------------------------------------------------------------------------
(* str::replace with a one-character needle, and str::trim_start_matches *)

RECURSIVE Replace(_, _, _)
Replace(s, c, rep) ==
    IF s = << >> THEN << >>
    ELSE (IF Head(s) = c THEN rep ELSE << Head(s) >>) \o Replace(Tail(s), c, rep)

RECURSIVE TrimStartMatches(_, _)
TrimStartMatches(s, pre) ==
    IF pre # << >> /\ StartsWith(s, pre)
    THEN TrimStartMatches(Drop(s, Len(pre)), pre)
    ELSE s

----------------------------------------------------------------------------
(* The regex crate, on the fragment the translation can produce:           *)
(* "\c" is the literal c, ".*" any sequence, "." any character, "^" and    *)
(* "$" the anchors, "(" opens a group (and fails to compile unclosed),     *)
(* every other character is itself.                                        *)

RegexCompiles(rs) == \A i \in 1..Len(rs) : rs[i] # "("

RECURSIVE RegexTokens(_)
RegexTokens(rs) ==
    IF rs = << >> THEN << >>
    ELSE IF Head(rs) = "\\" /\ Len(rs) >= 2
         THEN << [t |-> "lit", c |-> rs[2]] >> \o RegexTokens(Drop(rs, 2))
    ELSE IF Head(rs) = "." /\ Len(rs) >= 2 /\ rs[2] = "*"
         THEN << [t |-> "star", c |-> "."] >> \o RegexTokens(Drop(rs, 2))
    ELSE IF Head(rs) = "."
         THEN << [t |-> "any", c |-> "."] >> \o RegexTokens(Tail(rs))
    ELSE IF Head(rs) = "^"
         THEN << [t |-> "bol", c |-> "^"] >> \o RegexTokens(Tail(rs))
    ELSE IF Head(rs) = "$"
         THEN << [t |-> "eol", c |-> "$"] >> \o RegexTokens(Tail(rs))
    ELSE << [t |-> "lit", c |-> Head(rs)] >> \o RegexTokens(Tail(rs))

\* does the token list match a prefix of Drop(s, pos)?
RECURSIVE MatchAt(_, _, _)
MatchAt(toks, s, pos) ==
    IF toks = << >> THEN TRUE
    ELSE LET k == Head(toks) IN
         CASE k.t = "star" ->
                \E q \in pos..Len(s) : MatchAt(Tail(toks), s, q)
           [] k.t = "any" ->
                pos < Len(s) /\ MatchAt(Tail(toks), s, pos + 1)
           [] k.t = "lit" ->
                pos < Len(s) /\ s[pos + 1] = k.c /\ MatchAt(Tail(toks), s, pos + 1)
           [] k.t = "bol" ->
                pos = 0 /\ MatchAt(Tail(toks), s, pos)
           [] k.t = "eol" ->
                pos = Len(s) /\ MatchAt(Tail(toks), s, pos)

\* Regex::is_match: unanchored search
is_match(rs, s) ==
    LET toks == RegexTokens(rs) IN \E p \in 0..Len(s) : MatchAt(toks, s, p)

----------------------------------------------------------------------------
(* src/config.rs *)

\* the regex source string handed to Regex::new
glob_to_regex(pattern) ==
    LET cleaned_pattern == Replace(Replace(Replace(pattern, ".", << "\\", "." >>),
                                           "*", << ".", "*" >>),
                                   "/", << "\\", "/" >>)
        regex_str == TrimStartMatches(cleaned_pattern, << ".", "/" >>)
    IN  << "^", ".", "*" >> \o regex_str \o << ".", "*", "$" >>

\* Config::should_ignore over the list from position k on:
\* "yes", "no", or "panic" when Regex::new(..).unwrap() fails
RECURSIVE should_ignore_from(_, _, _)
should_ignore_from(ignore_patterns, k, path) ==
    IF k > Len(ignore_patterns) THEN "no"
    ELSE LET regex == glob_to_regex(ignore_patterns[k]) IN
         IF ~RegexCompiles(regex) THEN "panic"
         ELSE IF is_match(regex, path) THEN "yes"
         ELSE should_ignore_from(ignore_patterns, k + 1, path)

should_ignore(cfg, path) ==
    IF cfg.some THEN should_ignore_from(cfg.ignore, 1, path) ELSE "no"

----------------------------------------------------------------------------
(* The file system the runs read.  The current directory is working_dir.   *)

DotGit == << ".", "g", "i", "t" >>

N_at == << "a", ".", "t" >>
N_bl == << "b", ".", "l" >>
N_ct == << "c", ".", "t" >>
N_et == << "e", ".", "t" >>
N_d  == << "d" >>
N_s  == << "s" >>
N_h  == << "h" >>

\* the path string of the working directory, "/w", and its components
working_dir == << "/", "w" >>
working_dir_components == << << "/" >>, << "w" >> >>

\* directory listing, in the order read_dir returns it
ReadDir(comps) ==
    CASE comps = << >>            -> << DotGit, N_at, N_bl, N_d >>
      [] comps = << DotGit >>     -> << N_h >>
      [] comps = << N_d >>        -> << N_ct, N_s >>
      [] comps = << N_d, N_s >>   -> << N_et >>
      [] OTHER                    -> << >>

DirSet == { << >>, << DotGit >>, << N_d >>, << N_d, N_s >> }

FileSet == { << N_at >>, << N_bl >>, << DotGit, N_h >>, << N_d, N_ct >>,
             << N_d, N_s, N_et >> }

\* Path::exists, Path::is_dir, Path::is_file of a path relative to the
\* current directory
exists(comps)  == comps \in DirSet \cup FileSet
is_dir(comps)  == comps \in DirSet
is_file(comps) == comps \in FileSet

\* fs::metadata(path).map(|m| m.len() as usize)
metadata_len(comps) ==
    IF comps \in statFail THEN [ok |-> FALSE, size |-> 0]
    ELSE [ok |-> TRUE, size |-> sizes[comps]]

----------------------------------------------------------------------------
(* Paths.  A PathBuf is [abs, comps]: comps are the components below the   *)
(* current directory; abs tells whether the path is spelled from           *)
(* working_dir (entries of create_walker) or relative (a user pattern and  *)
(* the entries of a walk rooted at it).                                    *)

RECURSIVE Join(_)
Join(comps) ==
    IF comps = << >> THEN << >>
    ELSE IF Len(comps) = 1 THEN Head(comps)
    ELSE Head(comps) \o << "/" >> \o Join(Tail(comps))

\* Path::to_str
to_str(path) ==
    IF path.abs
    THEN IF path.comps = << >> THEN working_dir
         ELSE working_dir \o << "/" >> \o Join(path.comps)
    ELSE Join(path.comps)

\* Path::components
components(path) ==
    IF path.abs THEN working_dir_components \o path.comps ELSE path.comps

\* Path::new(pattern): the components of a pattern string
RECURSIVE SplitPath(_, _)
SplitPath(s, cur) ==
    IF s = << >> THEN (IF cur = << >> THEN << >> ELSE << cur >>)
    ELSE IF Head(s) = "/"
         THEN (IF cur = << >> THEN << >> ELSE << cur >>) \o SplitPath(Tail(s), << >>)
    ELSE SplitPath(Tail(s), Append(cur, Head(s)))

PathNew(pattern) == [abs |-> FALSE, comps |-> SplitPath(pattern, << >>)]

----------------------------------------------------------------------------
(* Hierarchical ignore rules.  A rule is a bare name, as a .gitignore line *)
(* "name": it matches a path whose last component is that name.            *)
(* Gitignore::matched tests the path it is given and not its parents.      *)

GiMatched(gi, path) ==
    /\ path.comps # << >>
    /\ path.comps[Len(path.comps)] \in gi.rules

\* GitignoreHelper::build(): None when no rules can be built
GitignoreBuild == { [some |-> FALSE, rules |-> {}],
                    [some |-> TRUE,  rules |-> { N_d }],
                    [some |-> TRUE,  rules |-> { N_s }] }

\* FileProcessor::new
NewGitignore(ignore_gitignore) ==
    IF ~ignore_gitignore THEN GitignoreBuild
    ELSE { [some |-> FALSE, rules |-> {}] }

----------------------------------------------------------------------------
(* src/file_processor.rs: the ignore predicate *)

HasGitComponent(path) ==
    \E i \in 1..Len(components(path)) : components(path)[i] = DotGit

\* variant: the .git test sits inside the branch of the hierarchical rules
should_process_entry_git_with_rules(path) ==
    LET ign == should_ignore(config, to_str(path)) IN
    IF ign = "panic" THEN "panic"
    ELSE IF ign = "yes" THEN "skip"
    ELSE IF gitignore.some
         THEN (IF HasGitComponent(path) \/ GiMatched(gitignore, path)
               THEN "skip" ELSE "keep")
    ELSE "keep"

\* "keep" (true), "skip" (false) or "panic"
should_process_entry(path) ==
    LET ign == should_ignore(config, to_str(path)) IN
    IF ign = "panic" THEN "panic"
    ELSE IF ign = "yes" THEN "skip"
    ELSE IF HasGitComponent(path) THEN "skip"
    ELSE IF gitignore.some
         THEN (IF GiMatched(gitignore, path) THEN "skip" ELSE "keep")
    ELSE "keep"

----------------------------------------------------------------------------
(* walkdir: WalkDir::new(root) [.max_depth(1)] .into_iter().filter_entry   *)
(* The root is entry 0 and is filtered like every other entry; a rejected  *)
(* directory is not descended into.  The result holds the entries handed   *)
(* to the loop body, the decisions taken, and whether the predicate        *)
(* panicked (which ends the walk and the run).                             *)

ChildEntries(e) ==
    [ i \in 1..Len(ReadDir(e.path.comps)) |->
        [ path  |-> [abs |-> e.path.abs,
                     comps |-> Append(e.path.comps, ReadDir(e.path.comps)[i])],
          depth |-> e.depth + 1 ] ]

RECURSIVE WalkFrom(_, _, _)
WalkFrom(todo, limited, acc) ==
    IF todo = << >> THEN acc
    ELSE LET e == Head(todo)
             verdict == should_process_entry(e.path)
         IN  IF verdict = "panic" THEN [acc EXCEPT !.panic = TRUE]
             ELSE IF verdict = "skip"
             THEN WalkFrom(Tail(todo), limited,
                    [acc EXCEPT !.log = @ \cup { [path |-> e.path, keep |-> FALSE] }])
             ELSE LET descend == is_dir(e.path.comps) /\ (~limited \/ e.depth < 1)
                      kids == IF descend THEN ChildEntries(e) ELSE << >>
                  IN  WalkFrom(kids \o Tail(todo), limited,
                        [acc EXCEPT !.entries = Append(@, e.path),
                                    !.log = @ \cup { [path |-> e.path, keep |-> TRUE] }])

Walk(root, limited) ==
    WalkFrom(<< [path |-> root, depth |-> 0] >>, limited,
             [entries |-> << >>, log |-> {}, panic |-> FALSE])

\* FileProcessor::create_walker, iterated with filter_entry
create_walker ==
    IF args.recursive
    THEN Walk([abs |-> TRUE, comps |-> << >>], FALSE)
    ELSE Walk([abs |-> TRUE, comps |-> << >>], TRUE)

\* the walker of process_directory and collect_files_with_sizes
dir_walker(dir) == Walk(dir, FALSE)

----------------------------------------------------------------------------
(* PatternMatcher::glob_to_regex for a user pattern (spec section 4.1):    *)
(* a leading "./" is stripped, then ".", "*" and "/" are translated, and   *)
(* the matcher tests for the pattern anywhere in the path.  A pattern that *)
(* fails to compile contributes nothing.                                   *)

pattern_matcher_glob_to_regex(pattern) ==
    LET stripped == IF StartsWith(pattern, << ".", "/" >>) THEN Drop(pattern, 2)
                    ELSE pattern
        cleaned  == Replace(Replace(Replace(stripped, ".", << "\\", "." >>),
                                    "*", << ".", "*" >>),
                            "/", << "\\", "/" >>)
    IN  << "^", ".", "*" >> \o cleaned \o << ".", "*", "$" >>

----------------------------------------------------------------------------
(* Output.  A line of the streaming run is [kind, path, pat]: kind is      *)
(* "header" ("# File: <path>"), "contents", "separator" or "error"         *)
(* ("Error reading file: <path>"); pat records which pattern of            *)
(* args.patterns was being resolved when the line was printed.             *)

\* variant: the files_only flag is not consulted
process_single_file_always_reads(path, k) ==
    << [kind |-> "header", path |-> path, pat |-> k] >> \o
    (IF path.comps \notin unreadable
     THEN << [kind |-> "contents", path |-> path, pat |-> k],
             [kind |-> "separator", path |-> path, pat |-> k] >>
     ELSE << [kind |-> "error", path |-> path, pat |-> k] >>)

process_single_file(path, k) ==
    << [kind |-> "header", path |-> path, pat |-> k] >> \o
    (IF ~args.files_only
     THEN (IF path.comps \notin unreadable
           THEN << [kind |-> "contents", path |-> path, pat |-> k],
                   [kind |-> "separator", path |-> path, pat |-> k] >>
           ELSE << [kind |-> "error", path |-> path, pat |-> k] >>)
     ELSE << >>)

\* variant: a file that already has a header is not printed again
EmitAll_dedup(files, k) ==
    LET Fresh(path) == \A j \in 1..Len(out) : out[j].path.comps # path.comps
        fresh == SelectSeq(files, Fresh)
    IN  Flatten([ i \in 1..Len(fresh) |-> process_single_file(fresh[i], k) ])

EmitAll(files, k) ==
    Flatten([ i \in 1..Len(files) |-> process_single_file(files[i], k) ])

IsFileEntry(path) == is_file(path.comps)

\* the (path, size) pairs pushed for a list of files: a failed lookup pushes nothing
\* (pat records the pattern being resolved, as in the streaming lines)
RECURSIVE PushSizes(_, _)
PushSizes(files, k) ==
    IF files = << >> THEN << >>
    ELSE LET m == metadata_len(Head(files).comps) IN
         (IF m.ok THEN << [path |-> Head(files), size |-> m.size, pat |-> k] >>
          ELSE << >>)
         \o PushSizes(Tail(files), k)

\* variant: an element is placed before the elements of its own size
InsertBySize_unstable(sorted, x) ==
    LET k == Cardinality({ i \in 1..Len(sorted) : sorted[i].size > x.size })
    IN  SubSeq(sorted, 1, k) \o << x >> \o SubSeq(sorted, k + 1, Len(sorted))

\* file_sizes.sort_by(|a, b| b.1.cmp(&a.1)): stable, largest first
InsertBySize(sorted, x) ==
    LET k == Cardinality({ i \in 1..Len(sorted) : sorted[i].size >= x.size })
    IN  SubSeq(sorted, 1, k) \o << x >> \o SubSeq(sorted, k + 1, Len(sorted))

RECURSIVE sort_by(_)
sort_by(s) ==
    IF s = << >> THEN << >>
    ELSE InsertBySize(sort_by(SubSeq(s, 1, Len(s) - 1)), s[Len(s)])

\* the text after "# File: " of a size-sorted line
SizeLineText(path) ==
    IF path.abs THEN << ".", "/" >> \o Join(path.comps) ELSE to_str(path)

PrintSizes(sorted) ==
    [ i \in 1..Len(sorted) |->
        [kind |-> "sizeheader", path |-> sorted[i].path,
         text |-> SizeLineText(sorted[i].path), size |-> sorted[i].size] ]

----------------------------------------------------------------------------
(* Inputs *)

P_d    == << "d" >>
P_ds   == << "d", "/", "s" >>
P_star == << "*" >>
P_bl   == << "b", ".", "l" >>
P_gith == << ".", "g", "i", "t", "/", "h" >>
P_bad  == << "(" >>

PatternPool == { P_d, P_ds, P_star, P_bl, P_gith, P_bad }

PatternLists == UNION { [1..n -> PatternPool] : n \in 1..MaxPatterns }

\* Config::load: no file (or unparsable), or the ignore list of .agg-files
ConfigLoad == { [some |-> FALSE, ignore |-> << >>],
                [some |-> TRUE,  ignore |-> << << "*", ".", "l" >> >>],
                [some |-> TRUE,  ignore |-> << << "d", "/", "s" >> >>],
                [some |-> TRUE,  ignore |-> << << "(" >> >>] }

DefaultSizes == [ f \in FileSet |-> Len(f) ]

Init ==
    /\ args \in [ recursive : BOOLEAN, ignore_gitignore : BOOLEAN,
                  files_only : BOOLEAN, sort_by_size : {FALSE},
                  patterns : PatternLists ]
    /\ gitignore \in NewGitignore(args.ignore_gitignore)
    /\ config \in ConfigLoad
    /\ sizes = DefaultSizes
    /\ statFail = {}
    /\ unreadable = { << N_d, N_ct >> }
    /\ pc = "process"
    /\ idx = 1
    /\ out = << >>
    /\ file_sizes = << >>
    /\ printed = << >>
    /\ visited = {}
    /\ streamExit = "running"

SizePatternLists == { << P_d >>, << P_bl, P_star >>, << P_ds, P_gith, P_d >> }

InitSize ==
    /\ args \in [ recursive : {TRUE}, ignore_gitignore : {TRUE},
                  files_only : {FALSE}, sort_by_size : {FALSE},
                  patterns : SizePatternLists ]
    /\ gitignore \in NewGitignore(args.ignore_gitignore)
    /\ config = [some |-> FALSE, ignore |-> << >>]
    /\ sizes \in [ FileSet -> 1..MaxSize ]
    /\ statFail \in { {}, { << N_d, N_ct >> }, { << N_bl >>, << N_d, N_s, N_et >> } }
    /\ unreadable = {}
    /\ pc = "process"
    /\ idx = 1
    /\ out = << >>
    /\ file_sizes = << >>
    /\ printed = << >>
    /\ visited = {}
    /\ streamExit = "running"

----------------------------------------------------------------------------
(* FileProcessor::process, streaming branch: one step per pattern *)

CurPattern == args.patterns[idx]

InLoop == pc = "process" /\ idx <= Len(args.patterns)

\* where the run stands after the pattern at idx
AfterPattern(panicked) ==
    IF panicked THEN "panicked"
    ELSE IF idx < Len(args.patterns) THEN "process"
    ELSE IF args.sort_by_size THEN "sort"
    ELSE "done"

\* variant: a literal file goes through the ignore predicate
StreamLiteralFile_filtered ==
    /\ InLoop /\ ~args.sort_by_size
    /\ LET path == PathNew(CurPattern) IN
        /\ exists(path.comps) /\ ~is_dir(path.comps)
        /\ out' = out \o (IF should_process_entry(path) = "keep"
                          THEN process_single_file(path, idx) ELSE << >>)
    /\ pc' = AfterPattern(FALSE)
    /\ idx' = idx + 1
    /\ UNCHANGED << args, gitignore, config, sizes, statFail, unreadable,
                    file_sizes, printed, visited, streamExit >>

StreamLiteralFile ==
    /\ InLoop /\ ~args.sort_by_size
    /\ LET path == PathNew(CurPattern) IN
        /\ exists(path.comps) /\ ~is_dir(path.comps)
        /\ out' = out \o process_single_file(path, idx)
    /\ pc' = AfterPattern(FALSE)
    /\ idx' = idx + 1
    /\ UNCHANGED << args, gitignore, config, sizes, statFail, unreadable,
                    file_sizes, printed, visited, streamExit >>

\* process_directory
StreamDirectory ==
    /\ InLoop /\ ~args.sort_by_size
    /\ LET path == PathNew(CurPattern) IN
        /\ exists(path.comps) /\ is_dir(path.comps)
        /\ LET w == dir_walker(path) IN
            /\ out' = out \o EmitAll(SelectSeq(w.entries, IsFileEntry), idx)
            /\ visited' = visited \cup w.log
            /\ pc' = AfterPattern(w.panic)
    /\ idx' = idx + 1
    /\ UNCHANGED << args, gitignore, config, sizes, statFail, unreadable,
                    file_sizes, printed, streamExit >>

\* process_glob_pattern
StreamGlob ==
    /\ InLoop /\ ~args.sort_by_size
    /\ ~exists(PathNew(CurPattern).comps)
    /\ LET regex == pattern_matcher_glob_to_regex(CurPattern) IN
        IF ~RegexCompiles(regex)
        THEN /\ pc' = AfterPattern(FALSE)
             /\ UNCHANGED << out, visited >>
        ELSE LET w == create_walker
                 Hit(path) == is_file(path.comps) /\ is_match(regex, to_str(path))
             IN  /\ out' = out \o EmitAll(SelectSeq(w.entries, Hit), idx)
                 /\ visited' = visited \cup w.log
                 /\ pc' = AfterPattern(w.panic)
    /\ idx' = idx + 1
    /\ UNCHANGED << args, gitignore, config, sizes, statFail, unreadable,
                    file_sizes, printed, streamExit >>

----------------------------------------------------------------------------
(* FileProcessor::process_with_size_sorting: one step per pattern, then    *)
(* the sort and the printing loop                                          *)

CollectLiteralFile ==
    /\ InLoop /\ args.sort_by_size
    /\ LET path == PathNew(CurPattern) IN
        /\ exists(path.comps) /\ ~is_dir(path.comps)
        /\ file_sizes' = file_sizes \o PushSizes(<< path >>, idx)
    /\ pc' = AfterPattern(FALSE)
    /\ idx' = idx + 1
    /\ UNCHANGED << args, gitignore, config, sizes, statFail, unreadable,
                    out, printed, visited, streamExit >>

\* variant: the directory walk of the size-sorted run is depth-limited
CollectDirectory_depth_limited ==
    /\ InLoop /\ args.sort_by_size
    /\ LET path == PathNew(CurPattern) IN
        /\ exists(path.comps) /\ is_dir(path.comps)
        /\ LET w == Walk(path, ~args.recursive) IN
            /\ file_sizes' = file_sizes \o PushSizes(SelectSeq(w.entries, IsFileEntry), idx)
            /\ visited' = visited \cup w.log
            /\ pc' = AfterPattern(w.panic)
    /\ idx' = idx + 1
    /\ UNCHANGED << args, gitignore, config, sizes, statFail, unreadable,
                    out, printed, streamExit >>

\* collect_files_with_sizes
CollectDirectory ==
    /\ InLoop /\ args.sort_by_size
    /\ LET path == PathNew(CurPattern) IN
        /\ exists(path.comps) /\ is_dir(path.comps)
        /\ LET w == dir_walker(path) IN
            /\ file_sizes' = file_sizes \o PushSizes(SelectSeq(w.entries, IsFileEntry), idx)
            /\ visited' = visited \cup w.log
            /\ pc' = AfterPattern(w.panic)
    /\ idx' = idx + 1
    /\ UNCHANGED << args, gitignore, config, sizes, statFail, unreadable,
                    out, printed, streamExit >>

\* collect_files_from_glob
CollectGlob ==
    /\ InLoop /\ args.sort_by_size
    /\ ~exists(PathNew(CurPattern).comps)
    /\ LET regex == pattern_matcher_glob_to_regex(CurPattern) IN
        IF ~RegexCompiles(regex)
        THEN /\ pc' = AfterPattern(FALSE)
             /\ UNCHANGED << file_sizes, visited >>
        ELSE LET w == create_walker
                 Hit(path) == is_file(path.comps) /\ is_match(regex, to_str(path))
             IN  /\ file_sizes' = file_sizes \o PushSizes(SelectSeq(w.entries, Hit), idx)
                 /\ visited' = visited \cup w.log
                 /\ pc' = AfterPattern(w.panic)
    /\ idx' = idx + 1
    /\ UNCHANGED << args, gitignore, config, sizes, statFail, unreadable,
                    out, printed, streamExit >>

SortAndPrint ==
    /\ pc = "sort"
    /\ printed' = PrintSizes(sort_by(file_sizes))
    /\ pc' = "done"
    /\ UNCHANGED << args, gitignore, config, sizes, statFail, unreadable,
                    idx, out, file_sizes, visited, streamExit >>

\* the program is started again on the same inputs, now with --sort-size
RunSizeSorted ==
    /\ pc \in { "done", "panicked" }
    /\ ~args.sort_by_size
    /\ args' = [args EXCEPT !.sort_by_size = TRUE]
    /\ streamExit' = pc
    /\ pc' = "process"
    /\ idx' = 1
    /\ UNCHANGED << gitignore, config, sizes, statFail, unreadable,
                    out, file_sizes, printed, visited >>

Next ==
    \/ StreamLiteralFile
    \/ StreamDirectory
    \/ StreamGlob
    \/ CollectLiteralFile
    \/ CollectDirectory
    \/ CollectGlob
    \/ SortAndPrint
    \/ RunSizeSorted

Spec == Init /\ [][Next]_vars

SpecSize == InitSize /\ [][Next]_vars

----------------------------------------------------------------------------
(* Vocabulary of the properties *)

IsLiteralFile(i) ==
    LET c == PathNew(args.patterns[i]).comps IN exists(c) /\ ~is_dir(c)

IsDirPattern(i) ==
    LET c == PathNew(args.patterns[i]).comps IN exists(c) /\ is_dir(c)

IsGlobPattern(i) == ~exists(PathNew(args.patterns[i]).comps)

IsHeader(l) == l.kind = "header"

Headers == SelectSeq(out, IsHeader)

StreamRunning == ~args.sort_by_size

SizedDone == args.sort_by_size /\ pc = "done"

\* the directories a path lies beneath, in the spelling of that path
Ancestors(path) ==
    { [abs |-> path.abs, comps |-> SubSeq(path.comps, 1, n)] :
        n \in (IF path.abs THEN 0 ELSE 1)..(Len(path.comps) - 1) }

\* the root of the traversal that resolves pattern i
TraversalRoot(i) ==
    IF IsDirPattern(i) THEN PathNew(args.patterns[i])
    ELSE [abs |-> TRUE, comps |-> << >>]

\* the candidates printed or collected by a traversal: [path, pat]
TraversalCandidates ==
    { [path |-> out[k].path, pat |-> out[k].pat] :
        k \in { j \in 1..Len(out) : IsHeader(out[j]) /\ ~IsLiteralFile(out[j].pat) } }
    \cup
    { [path |-> file_sizes[k].path, pat |-> file_sizes[k].pat] :
        k \in { j \in 1..Len(file_sizes) : ~IsLiteralFile(file_sizes[j].pat) } }

ConfigMatches(path) ==
    /\ config.some
    /\ \E k \in 1..Len(config.ignore) :
          /\ RegexCompiles(glob_to_regex(config.ignore[k]))
          /\ is_match(glob_to_regex(config.ignore[k]), to_str(path))

HierarchicalMatches(path) == gitignore.some /\ GiMatched(gitignore, path)

----------------------------------------------------------------------------
\* C1: a pattern that names an existing regular file is emitted by the
\* streaming run (one header for that pattern) and listed by the size-sorted
\* run (collected when its size is obtained, and printed once the run is
\* done) whatever the ignore predicate says of it; and every file that a
\* directory or glob traversal emits is one the ignore predicate keeps.
C1_LiteralFileBypass ==
    /\ StreamRunning =>
         \A i \in 1..(idx - 1) :
            IsLiteralFile(i) =>
               Cardinality({ k \in 1..Len(out) :
                               /\ IsHeader(out[k])
                               /\ out[k].pat = i
                               /\ out[k].path = PathNew(args.patterns[i]) }) = 1
    /\ args.sort_by_size =>
         \A i \in 1..(idx - 1) :
            (IsLiteralFile(i) /\ metadata_len(PathNew(args.patterns[i]).comps).ok) =>
               /\ \E k \in 1..Len(file_sizes) :
                     /\ file_sizes[k].pat = i
                     /\ file_sizes[k].path = PathNew(args.patterns[i])
               /\ SizedDone =>
                     \E k \in 1..Len(printed) :
                        printed[k].path = PathNew(args.patterns[i])
    /\ \A c \in TraversalCandidates : should_process_entry(c.path) = "keep"

\* C1 witness: both runs are done and a literal file that the ignore
\* predicate rejects (it lies in .git or the config list matches it) stands
\* in the streaming output and in the size-sorted listing.
C1_Witness ==
    /\ SizedDone /\ streamExit = "done"
    /\ \E a \in 1..Len(out), b \in 1..Len(printed) :
          /\ IsHeader(out[a]) /\ IsLiteralFile(out[a].pat)
          /\ printed[b].path = out[a].path
          /\ should_process_entry(out[a].path) = "skip"

\* C2: no emitted file lies beneath a directory that the ignore predicate
\* excludes, for every traversal and every directory above the file, the
\* directories above the traversal root included.
C2_PrunedBeneathExcluded ==
    \A c \in TraversalCandidates :
       \A d \in Ancestors(c.path) : should_process_entry(d) # "skip"

\* C3: with recursive unset a traversal emits only immediate children of its
\* root (the directory pattern, or the working directory for a glob); with
\* recursive set it emits every file beneath its root that the ignore
\* predicate does not cut off.
C3_RecursiveFlagHonored ==
    /\ ~args.recursive =>
         \A c \in TraversalCandidates :
            Len(c.path.comps) = Len(TraversalRoot(c.pat).comps) + 1
    /\ (args.recursive /\ StreamRunning /\ pc # "panicked") =>
         \A i \in 1..(idx - 1) :
            IsDirPattern(i) =>
               \A f \in FileSet :
                  LET root == TraversalRoot(i)
                      path == [abs |-> root.abs, comps |-> f]
                  IN  ( /\ Len(f) > Len(root.comps)
                        /\ SubSeq(f, 1, Len(root.comps)) = root.comps
                        /\ should_process_entry(path) = "keep"
                        /\ \A n \in Len(root.comps)..(Len(f) - 1) :
                              should_process_entry(
                                 [abs |-> root.abs, comps |-> SubSeq(f, 1, n)]) = "keep" )
                      => \E k \in 1..Len(out) :
                            IsHeader(out[k]) /\ out[k].pat = i /\ out[k].path = path

C5_NoErrorTerminates ==
    /\ pc # "panicked"
    /\ \A k \in 1..Len(out) :
          (IsHeader(out[k]) /\ ~args.files_only /\ out[k].path.comps \in unreadable)
             => (k < Len(out) /\ out[k + 1].kind = "error")

\* the files pattern i reaches, by the kind of the pattern
ReachedBy(i) ==
    LET pattern == args.patterns[i]
        path == PathNew(pattern)
        regex == pattern_matcher_glob_to_regex(pattern)
    IN  IF IsLiteralFile(i) THEN { path.comps }
        ELSE IF IsDirPattern(i)
        THEN { e.comps : e \in { x \in Range(dir_walker(path).entries) : is_file(x.comps) } }
        ELSE IF ~RegexCompiles(regex) THEN {}
        ELSE { e.comps : e \in { x \in Range(create_walker.entries) :
                                   is_file(x.comps) /\ is_match(regex, to_str(x)) } }

\* C6: when the streaming run has ended, its output is ordered by pattern
\* (every line of pattern i stands before every line of a later pattern), and
\* a file is emitted once for each processed pattern that reaches it, no more
\* and no less.
C6_PatternOrderNoDedup ==
    (StreamRunning /\ pc \in { "done", "panicked" }) =>
       LET reached == [ i \in 1..(idx - 1) |-> ReachedBy(i) ] IN
       /\ \A a, b \in 1..Len(out) : a < b => out[a].pat <= out[b].pat
       /\ \A f \in FileSet :
             /\ Cardinality({ k \in 1..Len(out) :
                                IsHeader(out[k]) /\ out[k].path.comps = f })
                = Cardinality({ i \in 1..(idx - 1) : f \in reached[i] })
             /\ \A i \in 1..(idx - 1) :
                   Cardinality({ k \in 1..Len(out) :
                                   /\ IsHeader(out[k])
                                   /\ out[k].pat = i
                                   /\ out[k].path.comps = f }) <= 1

\* C6 witness: the streaming run is done and printed the same file for two
\* different patterns.
C6_Witness ==
    /\ StreamRunning /\ pc = "done"
    /\ \E a, b \in 1..Len(out) :
          /\ IsHeader(out[a]) /\ IsHeader(out[b])
          /\ out[a].pat < out[b].pat
          /\ out[a].path.comps = out[b].path.comps

\* the entries of the given size, in the order of the sequence
OfSize(s, v) == LET Is(x) == x.size = v IN SelectSeq(s, Is)

RECURSIVE LargestFirst(_, _)
LargestFirst(s, v) ==
    IF v < 0 THEN << >> ELSE OfSize(s, v) \o LargestFirst(s, v - 1)

MaxSizeOf(s) ==
    IF s = << >> THEN 0
    ELSE CHOOSE v \in { s[i].size : i \in 1..Len(s) } :
            \A i \in 1..Len(s) : s[i].size <= v

\* C7: when the size-sorted run is done, the printed lines are the collected
\* candidates, largest first, candidates of equal size in the order they were
\* collected; and the collected candidates are the files the streaming run
\* printed a header for, in that order, without those whose size lookup
\* fails.
C7_StableSizeSort ==
    (SizedDone /\ streamExit = "done") =>
       /\ [ k \in 1..Len(printed) |-> [path |-> printed[k].path, size |-> printed[k].size] ]
          = LET sorted == LargestFirst(file_sizes, MaxSizeOf(file_sizes))
            IN  [ k \in 1..Len(sorted) |-> [path |-> sorted[k].path, size |-> sorted[k].size] ]
       /\ [ k \in 1..Len(file_sizes) |-> file_sizes[k].path ]
          = LET Ok(l) == l.path.comps \notin statFail
                kept == SelectSeq(Headers, Ok)
            IN  [ k \in 1..Len(kept) |-> kept[k].path ]
       /\ \A k \in 1..Len(file_sizes) :
             file_sizes[k].size = sizes[file_sizes[k].path.comps]

\* C7 witness: the size-sorted run is done, a smaller candidate was collected
\* before two larger candidates of equal size and different paths, and a
\* resolved file was dropped because its size lookup failed.
C7_Witness ==
    /\ SizedDone /\ streamExit = "done"
    /\ \E a, b, c \in 1..Len(file_sizes) :
          /\ a < b /\ b < c
          /\ file_sizes[a].size < file_sizes[b].size
          /\ file_sizes[b].size = file_sizes[c].size
          /\ file_sizes[b].path # file_sizes[c].path
    /\ \E k \in 1..Len(out) : IsHeader(out[k]) /\ out[k].path.comps \in statFail

\* C8: with files-only set the streaming run prints neither contents nor the
\* separator (nor the error line); the size-sorted run prints one size
\* header per collected candidate and nothing else, whatever files-only is.
C8_FilesOnlyNoContents ==
    /\ args.files_only => \A k \in 1..Len(out) : IsHeader(out[k])
    /\ \A k \in 1..Len(printed) : printed[k].kind = "sizeheader"
    /\ SizedDone => Len(printed) = Len(file_sizes)

\* C8 witness: files-only is set, both runs are done and both printed.
C8_Witness ==
    /\ args.files_only
    /\ SizedDone /\ streamExit = "done"
    /\ out # << >> /\ printed # << >>

\* C9: the matcher of an ignore string P and the matcher of "./" followed by
\* P match the same path strings, on every path string that a traversal
\* handed to the config ignore list.
C9_LeadingDotSlashStripped ==
    config.some =>
       \A k \in 1..Len(config.ignore) :
          LET P == config.ignore[k]
              plain  == glob_to_regex(P)
              dotted == glob_to_regex(<< ".", "/" >> \o P)
          IN  RegexCompiles(plain) =>
                 /\ RegexCompiles(dotted)
                 /\ \A d \in visited :
                       is_match(dotted, to_str(d.path)) = is_match(plain, to_str(d.path))

\* C10: when both runs are done and no size lookup fails among the listed
\* files, the size-sorted run lists every path as often as the streaming run
\* printed a header for it.
C10_ModesSelectSameFiles ==
    (SizedDone /\ streamExit = "done"
       /\ \A k \in 1..Len(out) : out[k].path.comps \notin statFail) =>
       LET listed == [ k \in 1..Len(printed) |-> printed[k].path ]
           headed == [ k \in 1..Len(Headers) |-> Headers[k].path ]
       IN  \A x \in Range(listed) \cup Range(headed) :
              CountIn(listed, x) = CountIn(headed, x)

\* C10 witness: both runs are done, and the listing holds a literal file, a
\* file of a directory traversal and a file of a glob traversal.
C10_Witness ==
    /\ SizedDone /\ streamExit = "done"
    /\ \E a, b \in 1..Len(file_sizes) :
          /\ IsDirPattern(file_sizes[a].pat)
          /\ IsGlobPattern(file_sizes[b].pat)
    /\ Len(printed) = Len(Headers)

====
